---- MODULE Spec2Model ----
(***************************************************************************)
(* Model of the Track Record Comparison Dashboard (src/app.py).            *)
(*                                                                         *)
(* The script is a Streamlit page: every user interaction with a sidebar   *)
(* widget re-executes the whole script top to bottom.  One run reads the   *)
(* two CSV files, concatenates them, maps the Yes/No/Unknown columns,      *)
(* reads the widget values, filters, and renders metrics and tables.       *)
(* The state that survives between runs is the widget values; the model    *)
(* also keeps what the last run computed and rendered.                     *)
(*                                                                         *)
(* Conventions                                                             *)
(*   - a text value is a record [na, str]: na = TRUE is pandas' missing    *)
(*     value (NaN), otherwise str is the sequence of its characters;       *)
(*   - a DataFrame is a record [columns, rows] of its column names and its *)
(*     sequence of rows; a filtered DataFrame is the sequence of index     *)
(*     labels (positions in df.rows, 1-based here where                    *)
(*     pandas' RangeIndex is 0-based) of the rows it holds, in order;      *)
(*   - a mapped flag is one of "True", "False", "None", "NaN";             *)
(*   - mark_numeric and the probability are integers standing for the      *)
(*     floats of the CSV (only their order and their sums matter).         *)
(***************************************************************************)
EXTENDS Integers, Sequences, FiniteSets, TLC

VARIABLES
    df_men,                 \* Men_Track_Record_Comparison.csv as read
    df_women,               \* Women_Track_Record_Comparison.csv as read
    keyboard,               \* the characters the user types in the search box
    search_name,            \* widget: "Search by Competitor Name"
    selected_sex,           \* widget: "Select Sex"
    selected_discipline,    \* widget: "Select Discipline"
    selected_nationality,   \* widget: "Select Nationality"
    df,                     \* the store of the last run (after the mapping)
    filtered_df,            \* index labels of the filtered rows, last run
    status,                 \* "ok", or "error" when the last run raised
    metrics,                \* label -> value, the st.metric calls of the last run
    top_preds,              \* the three ranking tables of the last run
    top_nat,
    top_pb

vars == <<df_men, df_women, keyboard, search_name, selected_sex, selected_discipline,
          selected_nationality, df, filtered_df, status, metrics,
          top_preds, top_nat, top_pb>>

widgets == <<search_name, selected_sex, selected_discipline, selected_nationality>>

outputs == <<filtered_df, status, metrics, top_preds, top_nat, top_pb>>

(***************************************************************************)
(* Bounds of the model.                                                    *)
(***************************************************************************)
\* rows of the two CSV files together
MaxRows == 2
\* characters of the name search text
MaxSearchLen == 2
\* repetitions of a block of rows in the specification that varies the flags
MaxRep == 6

\* .head(10) of the three ranking tables
HeadN == 10

(***************************************************************************)
(* Text.                                                                   *)
(***************************************************************************)
Str(s) == [na |-> FALSE, str |-> s]

NaNStr == [na |-> TRUE, str |-> <<>>]

\* re.IGNORECASE on the characters the model uses
Lower(c) ==
    CASE c = "A" -> "a"
      [] c = "M" -> "m"
      [] c = "R" -> "r"
      [] OTHER -> c

\* re.compile(pat): of the characters the model uses, "(" opens a group that
\* nothing can close, so a pattern holding it does not compile (re.error)
PatternCompiles(pat) == \A k \in 1..Len(pat) : pat[k] # "("

\* one pattern character against one text character: "." is any character
CharMatches(p, c) == p = "." \/ Lower(p) = Lower(c)

\* regex.search(text) is not None, for a compiled pattern of literals and "."
RegexSearch(pat, text) ==
    \E i \in 1..(Len(text) - Len(pat) + 1) :
        \A k \in 1..Len(pat) : CharMatches(pat[k], text[i + k - 1])

(***************************************************************************)
(* Loading: read_csv, concat, and the Yes/No/Unknown mapping.              *)
(*                                                                         *)
(* A CSV file is [columns, rows]: columns is the set of the optional       *)
(* columns its header holds (the mandatory ones are always there), rows    *)
(* the sequence of its rows.  A row is a record over every column name; a  *)
(* cell that is empty, or whose column the file lacks, holds NACell.       *)
(***************************************************************************)
CoreBoolColumns ==
    {"Predicted_World_Record_Breaker", "World_Record_Correct",
     "Actual_World_Record_Breaker", "Actual_National_Record_Breaker",
     "Actual_Personal_Best_Breaker"}

OptionalBoolColumns ==
    {"Predicted_National_Record_Breaker", "Predicted_Personal_Best_Breaker"}

NACell == "<NA>"

\* pd.concat([df_men, df_women], ignore_index=True): the men's rows, then the
\* women's; the columns are the union, a column one file lacks is missing (NaN)
\* in that file's rows
Fill(file) ==
    [i \in 1..Len(file.rows) |->
        [c \in DOMAIN file.rows[i] |->
            IF c \in OptionalBoolColumns /\ c \notin file.columns
            THEN NACell ELSE file.rows[i][c]]]

Concat(men, women) ==
    [columns |-> men.columns \cup women.columns,
     rows |-> Fill(men) \o Fill(women)]

\* bool_columns: the five fixed ones, and each optional one the frame holds
BoolColumns(columns) == CoreBoolColumns \cup (OptionalBoolColumns \cap columns)

MapFlag_Strict(v) ==
    CASE v = "Yes" -> "True"
      [] v = "No" -> "False"
      [] v = "Unknown" -> "None"
      [] OTHER -> "False"

\* Series.map({'Yes': True, 'No': False, 'Unknown': None}): a value that is no
\* key of the dict (another literal, an empty cell) maps to NaN
MapFlag(v) ==
    CASE v = "Yes" -> "True"
      [] v = "No" -> "False"
      [] v = "Unknown" -> "None"
      [] OTHER -> "NaN"

\* for col in bool_columns: df[col] = df[col].map(...)
Normalize(d) ==
    [d EXCEPT !.rows =
        [i \in 1..Len(d.rows) |->
            [c \in DOMAIN d.rows[i] |->
                IF c \in BoolColumns(d.columns)
                THEN MapFlag(d.rows[i][c]) ELSE d.rows[i][c]]]]

LoadStore(men, women) == Normalize(Concat(men, women))

\* pandas' isna on a mapped flag: None and NaN are both missing
IsNA(v) == v \in {"None", "NaN"}

(***************************************************************************)
(* The sidebar's options.                                                  *)
(***************************************************************************)
ColumnValues(d, col) == {d.rows[i][col] : i \in 1..Len(d.rows)}

sex_options(d) == ColumnValues(d, "Sex")

discipline_options(d) == ColumnValues(d, "Discipline")

nationality_options(d) == ColumnValues(d, "Nationality")

(***************************************************************************)
(* The filter.                                                             *)
(***************************************************************************)
\* the index labels of a frame, in row order
Index(d) == [i \in 1..Len(d.rows) |-> i]

\* df[(df['Sex'].isin(selected_sex)) & (df['Discipline'].isin(selected_discipline))]
ApplyFilters(d, sexes, disciplines) ==
    SelectSeq(Index(d), LAMBDA i : d.rows[i]["Sex"] \in sexes
                                   /\ d.rows[i]["Discipline"] \in disciplines)

ApplyNationality_Always(d, f, nationalities) ==
    SelectSeq(f, LAMBDA i : d.rows[i]["Nationality"] \in nationalities)

\* if selected_nationality: filtered_df = filtered_df[...isin(selected_nationality)]
ApplyNationality(d, f, nationalities) ==
    IF nationalities # {}
    THEN SelectSeq(f, LAMBDA i : d.rows[i]["Nationality"] \in nationalities)
    ELSE f

\* the dtype read_csv gives a file's competitor column: float64 when the file
\* has rows and every competitor cell is empty, object otherwise
FileCompetitorDtype(file) ==
    IF Len(file.rows) = 0 \/ \E i \in 1..Len(file.rows) : ~file.rows[i]["competitor"].na
    THEN "object" ELSE "float64"

\* the dtypes pd.concat can give the competitor column.  Two columns of one
\* dtype keep it, and text in either file makes it object.  An all-empty
\* float64 column beside a file without rows (object) is the one case that
\* depends on the pandas version: concat either leaves the empty frame out of
\* the result dtype (float64) or takes the common dtype (object)
CompetitorDtypes(men, women) ==
    IF FileCompetitorDtype(men) = FileCompetitorDtype(women)
    THEN {FileCompetitorDtype(men)}
    ELSE IF \/ (FileCompetitorDtype(men) = "float64" /\ Len(women.rows) = 0)
            \/ (FileCompetitorDtype(women) = "float64" /\ Len(men.rows) = 0)
         THEN {"float64", "object"}
         ELSE {"object"}

\* whether line 62 raises: the .str accessor on a float64 column
\* (AttributeError), or re.compile on the search text (re.error)
NameSearchRaises(dtype, text) ==
    text # <<>> /\ (dtype = "float64" \/ ~PatternCompiles(text))

\* one cell of .str.contains(search_name, case=False, na=False): regex is True
\* by default, so the text is a pattern; a missing cell gives na, False
ContainsName(cell, text) == ~cell.na /\ RegexSearch(text, cell.str)

\* if search_name: filtered_df = filtered_df[...str.contains(search_name, ...)]
ApplyNameSearch(d, f, text) ==
    IF text # <<>>
    THEN SelectSeq(f, LAMBDA i : ContainsName(d.rows[i]["competitor"], text))
    ELSE f

(***************************************************************************)
(* The metrics.  A rendered value is [na, num, den]: a count is num over   *)
(* 1, a mean is the sum over the number of rows, and na = TRUE is the      *)
(* literal "N/A".                                                          *)
(***************************************************************************)
Num(n) == [na |-> FALSE, num |-> n, den |-> 1]

Ratio(n, d) == [na |-> FALSE, num |-> n, den |-> d]

NotAvailable == [na |-> TRUE, num |-> 0, den |-> 1]

RECURSIVE SumOver(_, _, _)
\* the sum of a numeric column over the rows f of d
SumOver(d, f, col) ==
    IF f = <<>> THEN 0
    ELSE d.rows[Head(f)][col] + SumOver(d, Tail(f), col)

\* Series.mean() of a numeric column of a frame that has rows
Mean(d, f, col) == Ratio(SumOver(d, f, col), Len(f))

\* what one mapped flag adds to a skipna sum: True is 1, False is 0, and a
\* missing value (None, NaN) is skipped
Addend_NaAsTrue(v) == IF v = "False" THEN 0 ELSE 1

Addend(v) == IF IsNA(v) THEN 0 ELSE IF v = "True" THEN 1 ELSE 0

RECURSIVE SumTrue(_, _, _)
\* Series.sum(skipna=True) of a mapped flag column over the rows f of d
SumTrue(d, f, col) ==
    IF f = <<>> THEN 0
    ELSE Addend(d.rows[Head(f)][col]) + SumTrue(d, Tail(f), col)

\* filtered_df.dropna(subset=[col])
DropNA(d, f, col) == SelectSeq(f, LAMBDA i : ~IsNA(d.rows[i][col]))

KeyMetrics_Always(d, f) ==
    [l \in {"Total Records", "Average Mark Numeric",
            "Average Probability (World Record)",
            "Predicted World Record Breakers",
            "Actual World Record Breakers"} |->
        CASE l = "Total Records" -> Num(Len(f))
          [] l = "Average Mark Numeric" ->
                IF f = <<>> THEN NotAvailable ELSE Mean(d, f, "mark_numeric")
          [] l = "Average Probability (World Record)" ->
                IF f = <<>> THEN NotAvailable
                ELSE Mean(d, f, "Probability_World_Record_Breaker")
          [] l = "Predicted World Record Breakers" ->
                Num(SumTrue(d, f, "Predicted_World_Record_Breaker"))
          [] OTHER -> Num(SumTrue(d, f, "Actual_World_Record_Breaker"))]

\* the "Key Metrics" block: five metrics, and only when the subset has rows
KeyMetrics(d, f) ==
    IF f # <<>>
    THEN [l \in {"Total Records", "Average Mark Numeric",
                 "Average Probability (World Record)",
                 "Predicted World Record Breakers",
                 "Actual World Record Breakers"} |->
            CASE l = "Total Records" -> Num(Len(f))
              [] l = "Average Mark Numeric" -> Mean(d, f, "mark_numeric")
              [] l = "Average Probability (World Record)" ->
                    Mean(d, f, "Probability_World_Record_Breaker")
              [] l = "Predicted World Record Breakers" ->
                    Num(SumTrue(d, f, "Predicted_World_Record_Breaker"))
              [] OTHER -> Num(SumTrue(d, f, "Actual_World_Record_Breaker"))]
    ELSE <<>>

\* col6 and col8: the sum when the frame holds the optional column, else "N/A"
PredictedCount(d, f, col) ==
    IF col \in d.columns THEN Num(SumTrue(d, f, col)) ELSE NotAvailable

\* col7 and col9: the sum over the rows whose flag is not missing, "N/A" when
\* there is no such row
ActualCount(d, f, col) ==
    IF DropNA(d, f, col) # <<>>
    THEN Num(SumTrue(d, DropNA(d, f, col), col))
    ELSE NotAvailable

\* the "Additional Breakdowns" block: four metrics, always
Breakdowns(d, f) ==
    [l \in {"Predicted National Record Breakers", "Actual National Record Breakers",
            "Predicted Personal Best Breakers", "Actual Personal Best Breakers"} |->
        CASE l = "Predicted National Record Breakers" ->
                PredictedCount(d, f, "Predicted_National_Record_Breaker")
          [] l = "Actual National Record Breakers" ->
                ActualCount(d, f, "Actual_National_Record_Breaker")
          [] l = "Predicted Personal Best Breakers" ->
                PredictedCount(d, f, "Predicted_Personal_Best_Breaker")
          [] OTHER -> ActualCount(d, f, "Actual_Personal_Best_Breaker")]

\* the union of two functions with disjoint domains
Merge(f, g) ==
    [x \in (DOMAIN f) \cup (DOMAIN g) |-> IF x \in DOMAIN f THEN f[x] ELSE g[x]]

(***************************************************************************)
(* The ranking tables.                                                     *)
(***************************************************************************)
\* the elements of a sequence
Range(s) == {s[k] : k \in 1..Len(s)}

Min(a, b) == IF a <= b THEN a ELSE b

\* sort_values' default kind is 'quicksort', which is not stable: rows with
\* equal keys come out in an order the call does not fix.  A sort takes a tie
\* order: "row" leaves equal keys in row order, "reverse" in reverse row order
TieOrders == {"row", "reverse"}

Reverse(s) == [k \in 1..Len(s) |-> s[Len(s) + 1 - k]]

\* the key that sorts first among keys
FirstKey(keys, ascending) ==
    CHOOSE k \in keys : \A other \in keys : IF ascending THEN k <= other ELSE k >= other

\* the rows of f by key, the keys in order; the rows of one key in the tie order
RECURSIVE SortByKeys(_, _, _, _, _, _)
SortByKeys(d, f, col, ascending, tie, keys) ==
    IF keys = {} THEN <<>>
    ELSE LET key == FirstKey(keys, ascending)
             tied == SelectSeq(f, LAMBDA i : d.rows[i][col] = key)
         IN  (IF tie = "row" THEN tied ELSE Reverse(tied))
             \o SortByKeys(d, f, col, ascending, tie, keys \ {key})

SortValues_Unsorted(d, f, col, ascending, tie) == f

\* f.sort_values(col, ascending=ascending)
SortValues(d, f, col, ascending, tie) ==
    SortByKeys(d, f, col, ascending, tie, {d.rows[i][col] : i \in Range(f)})

\* f.head(n)
HeadRows(f, n) == SubSeq(f, 1, Min(n, Len(f)))

TopN_NotFalse(d, f, flag, col, ascending, tie) ==
    HeadRows(SortValues(d, SelectSeq(f, LAMBDA i : d.rows[i][flag] # "False"),
                        col, ascending, tie), HeadN)

\* filtered_df[filtered_df[flag] == True].sort_values(col, ascending=...).head(10)
TopN(d, f, flag, col, ascending, tie) ==
    HeadRows(SortValues(d, SelectSeq(f, LAMBDA i : d.rows[i][flag] = "True"),
                        col, ascending, tie), HeadN)

(***************************************************************************)
(* One run of the script.                                                  *)
(***************************************************************************)
\* lines 51-62 on the store d, whose competitor column has the dtype given:
\* the filtered subset; when line 62 raises, the
\* run stops there, with filtered_df as lines 52-58 left it
FilterRun(d, dtype, text, sexes, disciplines, nationalities) ==
    LET f == ApplyNationality(d, ApplyFilters(d, sexes, disciplines), nationalities)
    IN  IF NameSearchRaises(dtype, text)
        THEN [df |-> d, filtered_df |-> f, status |-> "error"]
        ELSE [df |-> d, filtered_df |-> ApplyNameSearch(d, f, text), status |-> "ok"]

\* lines 64-262: what the run renders from the filtered subset; nothing when
\* the run has raised
RenderMetrics(r) ==
    IF r.status = "ok"
    THEN Merge(KeyMetrics(r.df, r.filtered_df), Breakdowns(r.df, r.filtered_df))
    ELSE <<>>

RenderTop(r, flag, col, ascending, tie) ==
    IF r.status = "ok"
    THEN TopN(r.df, r.filtered_df, flag, col, ascending, tie)
    ELSE <<>>

\* what a run leaves behind: the store, the subset, and what it rendered
Render(r) ==
    /\ df' = r.df
    /\ filtered_df' = r.filtered_df
    /\ status' = r.status
    /\ metrics' = RenderMetrics(r)
    /\ top_preds' \in {RenderTop(r, "Predicted_World_Record_Breaker",
                                  "Probability_World_Record_Breaker", FALSE, tie) :
                        tie \in TieOrders}
    /\ top_nat' \in {RenderTop(r, "Actual_National_Record_Breaker",
                                "mark_numeric", TRUE, tie) : tie \in TieOrders}
    /\ top_pb' \in {RenderTop(r, "Actual_Personal_Best_Breaker",
                               "mark_numeric", TRUE, tie) : tie \in TieOrders}
    /\ UNCHANGED <<df_men, df_women, keyboard>>

\* the whole script, under the widget values given: it reads the files again
\* (lines 8-28), filters, and renders
Rerun(text, sexes, disciplines, nationalities) ==
    \E d \in {LoadStore(df_men, df_women)} :
    \E dtype \in CompetitorDtypes(df_men, df_women) :
    \E r \in {FilterRun(d, dtype, text, sexes, disciplines, nationalities)} :
        Render(r)

(***************************************************************************)
(* The user's interactions: each sets one widget and reruns the script.    *)
(***************************************************************************)
\* the texts of at most n characters over the characters chars
RECURSIVE Texts(_, _)
Texts(chars, n) ==
    IF n = 0 THEN {<<>>}
    ELSE Texts(chars, n - 1)
         \cup {Append(s, c) : s \in Texts(chars, n - 1), c \in chars}

\* st.sidebar.text_input("Search by Competitor Name", "")
SetSearchName ==
    \E text \in Texts(keyboard, MaxSearchLen) :
        /\ search_name' = text
        /\ UNCHANGED <<selected_sex, selected_discipline, selected_nationality>>
        /\ Rerun(text, selected_sex, selected_discipline, selected_nationality)

\* a rerun that narrows the subset of the run before instead of the store
SetSex_Sticky ==
    \E sexes \in SUBSET sex_options(df) :
        /\ selected_sex' = sexes
        /\ UNCHANGED <<search_name, selected_discipline, selected_nationality>>
        /\ \E d \in {LoadStore(df_men, df_women)} :
           \E dtype \in CompetitorDtypes(df_men, df_women) :
           \E r \in {FilterRun(d, dtype, search_name, sexes, selected_discipline,
                               selected_nationality)} :
              Render([r EXCEPT !.filtered_df =
                        SelectSeq(r.filtered_df,
                                  LAMBDA i : \E k \in 1..Len(filtered_df) :
                                                filtered_df[k] = i)])

\* st.sidebar.multiselect("Select Sex", options=sex_options, default=sex_options)
SetSex ==
    \E sexes \in SUBSET sex_options(df) :
        /\ selected_sex' = sexes
        /\ UNCHANGED <<search_name, selected_discipline, selected_nationality>>
        /\ Rerun(search_name, sexes, selected_discipline, selected_nationality)

\* st.sidebar.multiselect("Select Discipline", ..., default=discipline_options)
SetDiscipline ==
    \E disciplines \in SUBSET discipline_options(df) :
        /\ selected_discipline' = disciplines
        /\ UNCHANGED <<search_name, selected_sex, selected_nationality>>
        /\ Rerun(search_name, selected_sex, disciplines, selected_nationality)

\* st.sidebar.multiselect("Select Nationality", ..., default=[])
SetNationality ==
    \E nationalities \in SUBSET nationality_options(df) :
        /\ selected_nationality' = nationalities
        /\ UNCHANGED <<search_name, selected_sex, selected_discipline>>
        /\ Rerun(search_name, selected_sex, selected_discipline, nationalities)

Next == SetSearchName \/ SetSex \/ SetDiscipline \/ SetNationality

(***************************************************************************)
(* The first run: the files as read, the widgets at their defaults.        *)
(***************************************************************************)
FirstRun(men, women, chars) ==
    \E d \in {LoadStore(men, women)} :
    \E dtype \in CompetitorDtypes(men, women) :
    \E r \in {FilterRun(d, dtype, <<>>, sex_options(d), discipline_options(d), {})} :
        /\ df_men = men
        /\ df_women = women
        /\ keyboard = chars
        /\ search_name = <<>>
        /\ selected_sex = sex_options(d)
        /\ selected_discipline = discipline_options(d)
        /\ selected_nationality = {}
        /\ df = r.df
        /\ filtered_df = r.filtered_df
        /\ status = r.status
        /\ metrics = RenderMetrics(r)
        /\ top_preds \in {RenderTop(r, "Predicted_World_Record_Breaker",
                                      "Probability_World_Record_Breaker", FALSE, tie) :
                            tie \in TieOrders}
        /\ top_nat \in {RenderTop(r, "Actual_National_Record_Breaker",
                                    "mark_numeric", TRUE, tie) : tie \in TieOrders}
        /\ top_pb \in {RenderTop(r, "Actual_Personal_Best_Breaker",
                                   "mark_numeric", TRUE, tie) : tie \in TieOrders}

(***************************************************************************)
(* The input files.                                                        *)
(***************************************************************************)
\* a row of a CSV file
Row(sex, discipline, nationality, competitor, mark, predicted, actual) ==
    [Sex |-> sex, Discipline |-> discipline, Nationality |-> nationality,
     competitor |-> competitor, mark_numeric |-> mark,
     Probability_World_Record_Breaker |-> mark,
     Predicted_World_Record_Breaker |-> predicted,
     Predicted_National_Record_Breaker |-> predicted,
     Predicted_Personal_Best_Breaker |-> predicted,
     World_Record_Correct |-> actual,
     Actual_World_Record_Breaker |-> actual,
     Actual_National_Record_Breaker |-> actual,
     Actual_Personal_Best_Breaker |-> actual]

\* the sequences of at most n elements of S
RECURSIVE SeqsUpTo(_, _)
SeqsUpTo(S, n) ==
    IF n = 0 THEN {<<>>}
    ELSE SeqsUpTo(S, n - 1)
         \cup {Append(s, x) : s \in SeqsUpTo(S, n - 1), x \in S}

\* a sequence repeated k times
RECURSIVE Repeat(_, _)
Repeat(s, k) == IF k = 0 THEN <<>> ELSE s \o Repeat(s, k - 1)

File(columns, rows) == [columns |-> columns, rows |-> rows]

\* the two files of at most n rows together, the men's rows from M and the
\* women's from W
FilePairs(M, W, n) ==
    {<<men, women>> \in SeqsUpTo(M, n) \X SeqsUpTo(W, n) :
        Len(men) + Len(women) <= n}

Alice == Str(<<"A">>)

Maria == Str(<<"M", "a", "r", "i", "a">>)

\* SpecFilter: the filter columns vary.  The men's file holds men and the
\* women's file women; discipline and nationality take two values each, and
\* the competitor is there or missing, so that every pair of values of the
\* three columns occurs in some row
FilterRows(sex) ==
    {Row(sex, dis, nat,
         IF (dis = "100m") = (nat = "USA") THEN Alice ELSE NaNStr,
         1, "No", "Unknown") :
        dis \in {"100m", "200m"}, nat \in {"USA", "JAM"}}

InitFilter ==
    \E pair \in FilePairs(FilterRows("Men"), FilterRows("Women"), MaxRows) :
        FirstRun(File({}, pair[1]), File({}, pair[2]), {"a"})

SpecFilter == InitFilter /\ [][Next]_vars

\* SpecSearch: the competitor varies, in the men's file; the search box takes
\* a letter and the pattern characters "." and "("
SearchRows ==
    {Row("Men", "100m", "USA", com, 1, "No", "Unknown") :
        com \in {Alice, Maria, NaNStr}}

InitSearch ==
    \E men \in SeqsUpTo(SearchRows, MaxRows) :
        FirstRun(File({}, men), File({}, <<>>), {"a", ".", "("})

SpecSearch == InitSearch /\ [][Next]_vars

\* the cells of a Yes/No/Unknown column: the three literals of the mapping and
\* another one
FlagCells == {"Yes", "No", "Unknown", "Maybe"}

\* the cell of the actual columns beside a cell of the predicted columns: each
\* column takes every value, and the two differ in three rows of four
ActualBeside(predicted) ==
    CASE predicted = "Yes" -> "Yes"
      [] predicted = "No" -> "Unknown"
      [] predicted = "Unknown" -> "Maybe"
      [] OTHER -> "No"

\* SpecFlags: the flag cells vary, and which optional columns each file holds
FlagRows(sex, mark) ==
    {Row(sex, "100m", "USA", Alice, mark, v, ActualBeside(v)) : v \in FlagCells}

InitFlags ==
    \E pair \in FilePairs(FlagRows("Men", 1), FlagRows("Women", 2), MaxRows),
       mcols \in {{}, OptionalBoolColumns},
       wcols \in {{}, {"Predicted_National_Record_Breaker"}} :
        FirstRun(File(mcols, pair[1]), File(wcols, pair[2]), {"a"})

SpecFlags == InitFlags /\ [][Next]_vars

\* SpecRank: long files, so that .head(10) cuts.  Each file is one row
\* repeated; rows differ in their flags and in their mark
RankRows(sex) ==
    {Row(sex, "100m", "USA", Alice, mark, v, ActualBeside(v)) :
        mark \in {1, 2}, v \in {"Yes", "No"}}

RankBlocks(sex) == {<<>>} \cup {<<r>> : r \in RankRows(sex)}

InitRank ==
    \E men \in RankBlocks("Men"), women \in RankBlocks("Women"), k \in 1..MaxRep :
        FirstRun(File({}, Repeat(men, k)), File({}, Repeat(women, k)), {"a"})

SpecRank == InitRank /\ [][Next]_vars

(***************************************************************************)
(* The properties.  They speak of the state a run leaves: the widget       *)
(* values are the criteria, df the store, filtered_df the subset.          *)
(***************************************************************************)
Rows == 1..Len(df.rows)

InSubset(i) == \E k \in 1..Len(filtered_df) : filtered_df[k] = i

Increasing(s) == \A j, k \in 1..Len(s) : j < k => s[j] < s[k]

SexOK(i) == df.rows[i]["Sex"] \in selected_sex

DisciplineOK(i) == df.rows[i]["Discipline"] \in selected_discipline

NationalityOK(i) ==
    selected_nationality = {} \/ df.rows[i]["Nationality"] \in selected_nationality

\* the same letter, whatever its case
SameLetter(a, b) == a = b \/ {a, b} \in {{"a", "A"}, {"m", "M"}, {"r", "R"}}

\* text occurs in cell as a substring, compared case-insensitively
IsSubstringNoCase(text, cell) ==
    /\ ~cell.na
    /\ \E i \in 0..(Len(cell.str) - Len(text)) :
          \A k \in 1..Len(text) : SameLetter(text[k], cell.str[i + k])

NameOK(i) ==
    search_name = <<>> \/ IsSubstringNoCase(search_name, df.rows[i]["competitor"])

\* C1: the filtered subset holds only rows of the store, none twice, in the
\* store's order, and a row is kept iff it satisfies every active predicate
\* (sex, discipline, nationality when selected, name substring when given)
C1_FilterIsConjunction ==
    status = "ok" =>
        /\ \A k \in 1..Len(filtered_df) : filtered_df[k] \in Rows
        /\ Increasing(filtered_df)
        /\ \A i \in Rows :
              InSubset(i) <=>
                  (SexOK(i) /\ DisciplineOK(i) /\ NationalityOK(i) /\ NameOK(i))

\* C2: no selected sex, or no selected discipline, gives the empty subset; no
\* selected nationality restricts nothing: without a search text every row of
\* a selected sex and discipline is kept, and with one, two such rows of the
\* same competitor are kept or dropped together whatever their nationality;
\* a selected nationality keeps only rows of it
C2_EmptySelections ==
    /\ selected_sex = {} => filtered_df = <<>>
    /\ selected_discipline = {} => filtered_df = <<>>
    /\ (selected_nationality = {} /\ search_name = <<>>) =>
          \A i \in Rows : InSubset(i) <=> (SexOK(i) /\ DisciplineOK(i))
    /\ selected_nationality = {} =>
          \A i, j \in Rows :
              (/\ SexOK(i) /\ DisciplineOK(i) /\ SexOK(j) /\ DisciplineOK(j)
               /\ df.rows[i]["competitor"] = df.rows[j]["competitor"])
              => (InSubset(i) <=> InSubset(j))
    /\ selected_nationality # {} =>
          \A i \in Rows :
              InSubset(i) => df.rows[i]["Nationality"] \in selected_nationality

\* C2's case: nothing selected for the nationality, and rows of two
\* nationalities kept
C2_Witness ==
    /\ selected_nationality = {}
    /\ selected_sex # {}
    /\ \E i, j \in Rows :
          /\ InSubset(i) /\ InSubset(j)
          /\ df.rows[i]["Nationality"] # df.rows[j]["Nationality"]

\* C3: with a search text, a row (that passes the other predicates) is kept
\* iff its competitor contains the text as a substring, case-insensitively; a
\* missing competitor never matches
C3_NameIsSubstring ==
    (search_name # <<>> /\ status = "ok") =>
        \A i \in Rows :
            (SexOK(i) /\ DisciplineOK(i) /\ NationalityOK(i)) =>
                (InSubset(i) <=>
                    IsSubstringNoCase(search_name, df.rows[i]["competitor"]))

\* C10: no run fails: whatever the selections and the search text, the run
\* completes and renders
C10_NeverFails == status = "ok"

\* the cell of the files that row i, column c of the store comes from: NACell
\* when the row's file lacks the column
RawCell(i, c) ==
    IF i <= Len(df_men.rows)
    THEN IF c \in CoreBoolColumns \cup df_men.columns
         THEN df_men.rows[i][c] ELSE NACell
    ELSE IF c \in CoreBoolColumns \cup df_women.columns
         THEN df_women.rows[i - Len(df_men.rows)][c] ELSE NACell

FlagColumns == CoreBoolColumns \cup (OptionalBoolColumns \cap df.columns)

\* C4, as amended: "Yes" maps to true, "No" to false, "Unknown" to unknown
\* (None), and any other cell (another literal, an empty cell) maps silently
\* to the missing value NaN; loading raises nothing
C4_OtherLiteralsBecomeMissing ==
    /\ Len(df.rows) = Len(df_men.rows) + Len(df_women.rows)
    /\ \A i \in Rows, c \in FlagColumns :
          /\ RawCell(i, c) = "Yes" => df.rows[i][c] = "True"
          /\ RawCell(i, c) = "No" => df.rows[i][c] = "False"
          /\ RawCell(i, c) = "Unknown" => df.rows[i][c] = "None"
          /\ RawCell(i, c) \notin {"Yes", "No", "Unknown"} => df.rows[i][c] = "NaN"
    /\ search_name = <<>> => status = "ok"

\* C4's case: a cell holding another literal, loaded and mapped to NaN
C4_Witness ==
    /\ status = "ok"
    /\ \E i \in Rows, c \in FlagColumns :
          RawCell(i, c) = "Maybe" /\ df.rows[i][c] = "NaN"

\* C4, as claimed: a literal other than "Yes", "No", "Unknown" in a flag
\* column is an error at load time, never a silent conversion
C4_OtherLiteralsRaise ==
    (\E i \in Rows, c \in FlagColumns :
        RawCell(i, c) \notin {"Yes", "No", "Unknown", NACell})
    => status = "error"

\* the rows of the subset whose flag is true
TrueRows(flag) == {i \in Rows : InSubset(i) /\ df.rows[i][flag] = "True"}

\* C5: the table of the top actual national record breakers holds only rows
\* of the subset whose flag is true, in non-decreasing order of mark_numeric,
\* at most 10 of them, and exactly min(10, number of flag-true rows)
C5_TopNational ==
    /\ \A k \in 1..Len(top_nat) :
          top_nat[k] \in TrueRows("Actual_National_Record_Breaker")
    /\ \A j, k \in 1..Len(top_nat) :
          j < k => df.rows[top_nat[j]]["mark_numeric"]
                       <= df.rows[top_nat[k]]["mark_numeric"]
    /\ Len(top_nat) <= 10
    /\ Len(top_nat) =
          IF Cardinality(TrueRows("Actual_National_Record_Breaker")) < 10
          THEN Cardinality(TrueRows("Actual_National_Record_Breaker")) ELSE 10

\* C5's case: more than 10 flag-true rows, of two marks: the table is sorted
\* and cut at 10
C5_Witness ==
    /\ Cardinality(TrueRows("Actual_National_Record_Breaker")) > 10
    /\ Len(top_nat) = 10
    /\ df.rows[top_nat[1]]["mark_numeric"] < df.rows[top_nat[10]]["mark_numeric"]

\* key a sorts no later than key b
NoLater(a, b, ascending) == IF ascending THEN a <= b ELSE a >= b

\* a ranking table: distinct flag-true rows of the subset, sorted by the
\* column, min(10, number of flag-true rows) of them, and no row left out
\* sorts strictly before a row of the table
SortedTop(table, flag, col, ascending) ==
    /\ \A k \in 1..Len(table) : table[k] \in TrueRows(flag)
    /\ \A j, k \in 1..Len(table) : j < k => table[j] # table[k]
    /\ \A j, k \in 1..Len(table) :
          j < k => NoLater(df.rows[table[j]][col], df.rows[table[k]][col], ascending)
    /\ Len(table) = Min(HeadN, Cardinality(TrueRows(flag)))
    /\ \A i \in TrueRows(flag) \ Range(table) :
          \A k \in 1..Len(table) :
              NoLater(df.rows[table[k]][col], df.rows[i][col], ascending)

\* a ranking table whose ties follow row order: of two rows with equal keys
\* the earlier row of the store comes first, and is the one kept by the cut
TiesInRowOrder(table, flag, col) ==
    /\ \A j, k \in 1..Len(table) :
          (j < k /\ df.rows[table[j]][col] = df.rows[table[k]][col])
              => table[j] < table[k]
    /\ \A i \in TrueRows(flag) \ Range(table) :
          \A k \in 1..Len(table) :
              df.rows[table[k]][col] = df.rows[i][col] => table[k] < i

\* C6, as amended: the three tables are sorted by their column (probability
\* descending, mark_numeric ascending) and cut at 10, so the sort values of
\* the first 10 are determined; the order of rows with equal sort values,
\* and which of them make the first 10, is not
C6_SortedNotStable ==
    /\ SortedTop(top_preds, "Predicted_World_Record_Breaker",
                 "Probability_World_Record_Breaker", FALSE)
    /\ SortedTop(top_nat, "Actual_National_Record_Breaker", "mark_numeric", TRUE)
    /\ SortedTop(top_pb, "Actual_Personal_Best_Breaker", "mark_numeric", TRUE)

\* C6's case: a table cut at 10 that keeps a row and leaves out an earlier
\* row of the same mark
C6_Witness ==
    /\ Len(top_nat) = HeadN
    /\ \E i \in TrueRows("Actual_National_Record_Breaker") \ Range(top_nat) :
          \E k \in 1..Len(top_nat) :
              /\ df.rows[top_nat[k]]["mark_numeric"] = df.rows[i]["mark_numeric"]
              /\ i < top_nat[k]

\* C6, as claimed: the sorts are stable, rows with equal sort values appear in
\* row order and row order decides which of them make the first 10
C6_StableSorts ==
    /\ TiesInRowOrder(top_preds, "Predicted_World_Record_Breaker",
                      "Probability_World_Record_Breaker")
    /\ TiesInRowOrder(top_nat, "Actual_National_Record_Breaker", "mark_numeric")
    /\ TiesInRowOrder(top_pb, "Actual_Personal_Best_Breaker", "mark_numeric")

KeyLabels ==
    {"Total Records", "Average Mark Numeric", "Average Probability (World Record)",
     "Predicted World Record Breakers", "Actual World Record Breakers"}

BreakdownLabels ==
    {"Predicted National Record Breakers", "Actual National Record Breakers",
     "Predicted Personal Best Breakers", "Actual Personal Best Breakers"}

\* a metric rendered as the number n
Shows(label, n) ==
    label \in DOMAIN metrics /\ metrics[label] = [na |-> FALSE, num |-> n, den |-> 1]

\* a metric rendered as "N/A"
ShowsNA(label) == label \in DOMAIN metrics /\ metrics[label].na

\* an optional column's count: the number of flag-true rows when the store
\* holds the column, "N/A" when it does not
OptionalCount(label, col) ==
    IF col \in df.columns
    THEN Shows(label, Cardinality(TrueRows(col)))
    ELSE ShowsNA(label)

\* C7, as amended: for every non-empty subset the predicted and the actual
\* world counts, and for every subset the predicted national and personal
\* best counts of a store that holds the column, equal the number of rows of
\* the subset whose flag is true: a row whose flag is unknown adds nothing,
\* like a row whose flag is false.  For the empty subset the two world counts
\* are not rendered; without its column a predicted count reads "N/A"
C7_CountsOfTrue ==
    status = "ok" =>
        /\ filtered_df # <<>> =>
              /\ Shows("Predicted World Record Breakers",
                       Cardinality(TrueRows("Predicted_World_Record_Breaker")))
              /\ Shows("Actual World Record Breakers",
                       Cardinality(TrueRows("Actual_World_Record_Breaker")))
        /\ filtered_df = <<>> =>
              /\ "Predicted World Record Breakers" \notin DOMAIN metrics
              /\ "Actual World Record Breakers" \notin DOMAIN metrics
        /\ OptionalCount("Predicted National Record Breakers",
                         "Predicted_National_Record_Breaker")
        /\ OptionalCount("Predicted Personal Best Breakers",
                         "Predicted_Personal_Best_Breaker")

\* C7's case: a subset with a row whose predicted flags are true and a row
\* whose predicted flags are missing, in a store that holds the optional
\* national column
C7_Witness ==
    /\ status = "ok"
    /\ "Predicted_National_Record_Breaker" \in df.columns
    /\ \E i, j \in Rows :
          /\ InSubset(i) /\ InSubset(j)
          /\ df.rows[i]["Predicted_World_Record_Breaker"] = "True"
          /\ df.rows[i]["Predicted_National_Record_Breaker"] = "True"
          /\ IsNA(df.rows[j]["Predicted_World_Record_Breaker"])
          /\ IsNA(df.rows[j]["Predicted_National_Record_Breaker"])

\* C7, as claimed: for every subset (of a store that has rows), the empty one
\* too, each count metric equals the number of rows of the subset whose flag
\* is true
C7_CountsForEverySubset ==
    (status = "ok" /\ Len(df.rows) > 0) =>
        /\ Shows("Predicted World Record Breakers",
                 Cardinality(TrueRows("Predicted_World_Record_Breaker")))
        /\ Shows("Actual World Record Breakers",
                 Cardinality(TrueRows("Actual_World_Record_Breaker")))
        /\ "Predicted_National_Record_Breaker" \in df.columns =>
              Shows("Predicted National Record Breakers",
                    Cardinality(TrueRows("Predicted_National_Record_Breaker")))
        /\ "Predicted_Personal_Best_Breaker" \in df.columns =>
              Shows("Predicted Personal Best Breakers",
                    Cardinality(TrueRows("Predicted_Personal_Best_Breaker")))

\* C8, as amended: "Total Records" is reported, and is the row count, for
\* every non-empty subset.  For the empty subset the whole "Key Metrics" block
\* (the row count, the two averages, the two world counts) is left out: no 0
\* and no "N/A" is reported for them.  The four breakdown metrics are always
\* reported, and for the empty subset the two actual counts read "N/A"
C8_KeyMetricsOnlyWhenRows ==
    status = "ok" =>
        /\ filtered_df # <<>> =>
              /\ KeyLabels \subseteq DOMAIN metrics
              /\ Shows("Total Records", Len(filtered_df))
              /\ \A l \in KeyLabels : ~metrics[l].na
        /\ filtered_df = <<>> =>
              /\ KeyLabels \cap DOMAIN metrics = {}
              /\ ShowsNA("Actual National Record Breakers")
              /\ ShowsNA("Actual Personal Best Breakers")
        /\ BreakdownLabels \subseteq DOMAIN metrics

\* C8's case: a store with rows, criteria that keep none of them
C8_Witness ==
    /\ status = "ok"
    /\ Len(df.rows) > 0
    /\ filtered_df = <<>>
    /\ ShowsNA("Actual National Record Breakers")

\* C8, as claimed: the row count is reported for every subset (of a store
\* that has rows), 0 for the empty one, and the other key metrics are reported
\* too, as "N/A" when they cannot be computed
C8_TotalAlwaysReported ==
    (status = "ok" /\ Len(df.rows) > 0) =>
        /\ Shows("Total Records", Len(filtered_df))
        /\ KeyLabels \subseteq DOMAIN metrics

\* what a computation from the store under the current criteria alone gives:
\* the rows that satisfy them in store order, and the metrics and the tables
\* of that subset
FreshFromCriteria ==
    /\ status = "ok"
    /\ Increasing(filtered_df)
    /\ \A i \in Rows :
          InSubset(i) <=>
              (SexOK(i) /\ DisciplineOK(i) /\ NationalityOK(i) /\ NameOK(i))
    /\ metrics = Merge(KeyMetrics(df, filtered_df), Breakdowns(df, filtered_df))
    /\ SortedTop(top_preds, "Predicted_World_Record_Breaker",
                 "Probability_World_Record_Breaker", FALSE)
    /\ SortedTop(top_nat, "Actual_National_Record_Breaker", "mark_numeric", TRUE)
    /\ SortedTop(top_pb, "Actual_Personal_Best_Breaker", "mark_numeric", TRUE)

\* C9: through every sequence of interactions the store stays what the load
\* made it, the subset, the metrics and the tables are those of a fresh
\* computation under the current criteria, whatever the criteria were before,
\* and a rerun under the same criteria gives the same subset and metrics
C9_DerivedFromCurrentCriteria ==
    /\ [](df = LoadStore(df_men, df_women) /\ FreshFromCriteria)
    /\ [][/\ df' = df
          /\ widgets' = widgets =>
                (filtered_df' = filtered_df /\ metrics' = metrics)]_vars

\* C9's case: all four criteria changed from their defaults, one interaction
\* after the other, and rows still kept
C9_Witness ==
    /\ search_name # <<>>
    /\ selected_sex # sex_options(df)
    /\ selected_discipline # {}
    /\ selected_nationality # {}
    /\ filtered_df # <<>>
    /\ Len(filtered_df) < Len(df.rows)

====
